---- MODULE Spec2Model ----
(***************************************************************************)
(* engine-xr: the camera animation state machine (CameraAnimator and       *)
(* CameraAnimationChain, src/engine-xr/src/math/AstroMath.ts), the         *)
(* coordinate conversions of AstroMath.ts and WWTCompat, and the XREngine  *)
(* lifecycle (initialize, enterXR, exitXR, dispose).                       *)
(*                                                                         *)
(* Numbers are exact rationals [n, d] with d > 0; d = 0 encodes the IEEE   *)
(* specials the code can produce: 0/0 is NaN, 1/0 is +Infinity and -1/0 is *)
(* -Infinity.  Vector3 objects live in a heap, because the animator holds  *)
(* references to the caller's vectors and Vector3.normalize() works in     *)
(* place.  Time is the integer reading of performance.now().               *)
(***************************************************************************)
EXTENDS Integers, Sequences, FiniteSets, TLC

VARIABLES now, heap, supplied, animations, currentIndex, op, ret, prog, obs,
          depth, call, xrEngine, pending, experiences

vars == <<now, heap, supplied, animations, currentIndex, op, ret, prog, obs,
          depth, call, xrEngine, pending, experiences>>

\* No XREngine has been constructed.
NoXREngine ==
    /\ xrEngine = <<>>
    /\ pending = <<>>
    /\ experiences = 0

\* ------------------------------------------------------------------ bounds
\* Last reading of the clock the model explores.
MaxTime == 4
\* Longest chain the model explores.
MaxChain == 3

\* ------------------------------------------------------------- JS numbers
\* TLC passes operator arguments by name.  An operator that reads an
\* argument more than once binds it through a singleton set first, which
\* evaluates it once: The({f(x) : x \in {e}}) is f(e).
The(S) == CHOOSE r \in S : TRUE

Abs(x) == IF x < 0 THEN -x ELSE x

RECURSIVE GCD(_, _)
GCD(a, b) == The({IF y = 0 THEN x ELSE GCD(y, x % y) : x \in {a}, y \in {b}})

\* The rational n/d in lowest terms, d # 0.
Rat(n, d) ==
    The({LET g == GCD(Abs(x), Abs(y))
             s == IF y < 0 THEN -1 ELSE 1
         IN  [n |-> (s * x) \div g, d |-> (s * y) \div g] : x \in {n}, y \in {d}})

R(i) == [n |-> i, d |-> 1]
NaN == [n |-> 0, d |-> 0]
PosInf == [n |-> 1, d |-> 0]
NegInf == [n |-> -1, d |-> 0]

Finite(a) == a.d # 0
IsNaN(a) == The({x.d = 0 /\ x.n = 0 : x \in {a}})

\* a + b, a - b, a * b.  The model only ever feeds these finite numbers or
\* NaN (an infinity is produced by RDiv and consumed at once by RMin).
RAdd(a, b) ==
    The({IF ~(Finite(x) /\ Finite(y)) THEN NaN
         ELSE IF x.d = y.d THEN Rat(x.n + y.n, x.d)
         ELSE Rat(x.n * y.d + y.n * x.d, x.d * y.d)
         : x \in {a}, y \in {b}})

RSub(a, b) ==
    The({IF ~(Finite(x) /\ Finite(y)) THEN NaN
         ELSE IF x.d = y.d THEN Rat(x.n - y.n, x.d)
         ELSE Rat(x.n * y.d - y.n * x.d, x.d * y.d)
         : x \in {a}, y \in {b}})

RMul(a, b) ==
    The({IF Finite(x) /\ Finite(y) THEN Rat(x.n * y.n, x.d * y.d) ELSE NaN
         : x \in {a}, y \in {b}})

\* a / b as JavaScript divides: x/0 is +-Infinity, 0/0 is NaN.
RDiv(a, b) ==
    The({IF ~(Finite(x) /\ Finite(y)) THEN NaN
         ELSE IF y.n = 0
              THEN (IF x.n = 0 THEN NaN ELSE IF x.n > 0 THEN PosInf ELSE NegInf)
              ELSE Rat(x.n * y.d, x.d * y.n)
         : x \in {a}, y \in {b}})

\* a < b on numbers that are not NaN.
RLess(a, b) ==
    The({IF x.d = 0 THEN (x.n < 0 /\ y # NegInf)
         ELSE IF y.d = 0 THEN y.n > 0
         ELSE x.n * y.d < y.n * x.d
         : x \in {a}, y \in {b}})

\* a >= b as JavaScript compares: false when either side is NaN.
RGe(a, b) == The({~IsNaN(x) /\ ~IsNaN(y) /\ ~RLess(x, y) : x \in {a}, y \in {b}})

\* Math.min(a, b): NaN when either argument is NaN.
RMin(a, b) ==
    The({IF IsNaN(x) \/ IsNaN(y) THEN NaN ELSE IF RLess(y, x) THEN y ELSE x
         : x \in {a}, y \in {b}})

\* Math.max(a, b).
RMax(a, b) ==
    The({IF IsNaN(x) \/ IsNaN(y) THEN NaN ELSE IF RLess(x, y) THEN y ELSE x
         : x \in {a}, y \in {b}})

\* Integer square root of a perfect square.
ISqrt(k) == The({CHOOSE r \in 0..x : r * r = x : x \in {k}})

\* Math.sqrt on the numbers the model feeds it: squares of rationals.
RSqrt(a) == The({IF Finite(x) THEN Rat(ISqrt(x.n), ISqrt(x.d)) ELSE NaN : x \in {a}})

\* ---------------------------------------------------------------- Vector3
Vec(x, y, z) == [x |-> x, y |-> y, z |-> z]
IVec(x, y, z) == Vec(R(x), R(y), R(z))

\* Vector3.Dot
Dot(a, b) ==
    The({RAdd(RAdd(RMul(v.x, w.x), RMul(v.y, w.y)), RMul(v.z, w.z)) : v \in {a}, w \in {b}})

\* Vector3.length()
Length(v) == The({RSqrt(Dot(w, w)) : w \in {v}})

\* Vector3.scale(s): a new vector.
Scale(v, s) == The({Vec(RMul(w.x, k), RMul(w.y, k), RMul(w.z, k)) : w \in {v}, k \in {s}})

\* Vector3.add / Vector3.subtract: new vectors.
Add(a, b) ==
    The({Vec(RAdd(v.x, w.x), RAdd(v.y, w.y), RAdd(v.z, w.z)) : v \in {a}, w \in {b}})
Subtract(a, b) ==
    The({Vec(RSub(v.x, w.x), RSub(v.y, w.y), RSub(v.z, w.z)) : v \in {a}, w \in {b}})

\* Vector3.Lerp(start, end, amount) = start + (end - start) * amount.
Lerp(a, b, t) == The({Add(v, Scale(Subtract(w, v), t)) : v \in {a}, w \in {b}})

\* The value Vector3.normalize() leaves in the vector it is called on: a
\* vector of length 0 or 1 is left alone, any other is scaled by 1/length.
Normalized(v) ==
    The({IF len = R(0) \/ len = R(1) THEN w ELSE Scale(w, RDiv(R(1), len))
         : w \in {v}, len \in {Length(v)}})

\* ------------------------------------------------------- easing functions
\* EasingFunction.easeInCore of CubicEase, QuadraticEase and ExponentialEase
\* (exponent 2): g^3, g^2 and (e^(2g) - 1)/(e^2 - 1).  The last is known
\* exactly at 0 and 1 only, and the configurations below keep it there.
EaseInCore(core, g) ==
    CASE core = "cubic" -> RMul(g, RMul(g, g))
      [] core = "quadratic" -> RMul(g, g)
      [] core = "exponential" /\ IsNaN(g) -> NaN
      [] core = "exponential" /\ g = R(0) -> R(0)
      [] core = "exponential" /\ g = R(1) -> R(1)

\* EasingFunction.ease(gradient) for the three easing modes.
Ease(f, gradient) ==
    CASE f.mode = "in" -> EaseInCore(f.core, gradient)
      [] f.mode = "out" ->
            RSub(R(1), EaseInCore(f.core, RSub(R(1), gradient)))
      [] f.mode = "inout" ->
            IF RGe(gradient, Rat(1, 2))
            THEN RAdd(RMul(RSub(R(1), EaseInCore(f.core,
                          RMul(RSub(R(1), gradient), R(2)))), Rat(1, 2)), Rat(1, 2))
            ELSE RMul(EaseInCore(f.core, RMul(gradient, R(2))), Rat(1, 2))

\* createEasingFunction(type); "undefined" is a configuration without easing,
\* for which the constructor passes EaseInOut.
createEasingFunction(type) ==
    CASE type = "linear" -> [core |-> "cubic", mode |-> "in"]
      [] type = "easein" -> [core |-> "quadratic", mode |-> "in"]
      [] type = "easeout" -> [core |-> "quadratic", mode |-> "out"]
      [] type = "easeinout" -> [core |-> "cubic", mode |-> "inout"]
      [] type = "exponential" -> [core |-> "exponential", mode |-> "inout"]
      [] OTHER -> [core |-> "cubic", mode |-> "inout"]

\* ------------------------------------------------------------------ slerp
\* <<cos(acos(c) * t), sin(acos(c) * t)>> at the points where both are
\* rational; the configurations below stay on these points.
CosSin(c, t) ==
    CASE IsNaN(c) \/ IsNaN(t) -> <<NaN, NaN>>
      [] t = R(0) -> <<R(1), R(0)>>
      [] t = R(1) -> <<c, RSqrt(RSub(R(1), RMul(c, c)))>>
      [] c = R(1) -> <<R(1), R(0)>>
      [] c = Rat(7, 25) /\ t = Rat(1, 2) -> <<Rat(4, 5), Rat(3, 5)>>
      [] c = R(-1) /\ t = Rat(1, 2) -> <<R(0), R(1)>>

\* The threshold of the near-parallel fallback, 0.9995.
ParallelNum == 9995
ParallelDen == 10000

\* A faulty slerp: the component of v2 orthogonal to v1 is not normalised.
slerpWithoutNormalize(v1, v2, t) ==
    LET dot == Dot(v1, v2)
    IN  IF ~IsNaN(dot) /\ RLess(Rat(ParallelNum, ParallelDen), dot)
        THEN Normalized(Lerp(v1, v2, t))
        ELSE LET clampedDot == RMax(R(-1), RMin(R(1), dot))
                 cs == CosSin(clampedDot, t)
                 relative == Subtract(v2, Scale(v1, clampedDot))
             IN  Add(Scale(v1, cs[1]), Scale(relative, cs[2]))

slerp(v1, v2, t) ==
    LET dot == Dot(v1, v2)
    IN  IF ~IsNaN(dot) /\ RLess(Rat(ParallelNum, ParallelDen), dot)
        THEN Normalized(Lerp(v1, v2, t))
        ELSE LET clampedDot == RMax(R(-1), RMin(R(1), dot))
                 cs == CosSin(clampedDot, t)
                 relative == Normalized(Subtract(v2, Scale(v1, clampedDot)))
             IN  Add(Scale(v1, cs[1]), Scale(relative, cs[2]))

\* --------------------------------------------------------- CameraAnimator
\* A reference that is undefined (an optional target that was not given).
Undefined == 0

\* v.normalize() on the heap: the vector object itself is overwritten.
NormalizeInPlace(h, ref) == [h EXCEPT ![ref] = Normalized(h[ref])]

\* What update() hands back: null, or {position, target}; target is a
\* sequence of zero or one vectors.  terminal marks the frame of the
\* progress >= 1 branch.
ZeroVec == IVec(0, 0, 0)
NoReturn == [kind |-> "none", position |-> ZeroVec, target |-> <<>>, terminal |-> FALSE]
NullReturn == [kind |-> "null", position |-> ZeroVec, target |-> <<>>, terminal |-> FALSE]
Frame(position, target, terminal) ==
    [kind |-> "frame", position |-> position, target |-> target, terminal |-> terminal]

\* new CameraAnimator(config)
NewAnimator(config) ==
    [config |-> config, startTime |-> 0, currentTime |-> 0, isAnimating |-> FALSE,
     easingFunction |->
        createEasingFunction(IF config.easing = "undefined" THEN "easeinout"
                             ELSE config.easing)]

\* A faulty start(): an animator that is already running keeps its epoch.
StartKeepingEpoch(a, t) ==
    [a EXCEPT !.startTime = IF a.isAnimating THEN @ ELSE t,
              !.currentTime = 0, !.isAnimating = TRUE]

\* CameraAnimator.start() with performance.now() = t
AnimatorStart(a, t) ==
    [a EXCEPT !.startTime = t, !.currentTime = 0, !.isAnimating = TRUE]

\* A faulty stop(): nothing happens.
StopIgnored(a) == a

\* CameraAnimator.stop()
AnimatorStop(a) == [a EXCEPT !.isAnimating = FALSE]

\* A faulty progress accessor: the ratio even when not running.
ProgressUnguarded(a) == RMin(RDiv(R(a.currentTime), R(a.config.duration)), R(1))

\* The progress accessor.
AnimatorProgress(a) ==
    IF ~a.isAnimating THEN R(1)
    ELSE RMin(RDiv(R(a.currentTime), R(a.config.duration)), R(1))

\* update(), "Interpolate position": the heap afterwards and the position.
\* The spherical branch calls normalize() on the two configured vectors
\* themselves, then takes their lengths.
InterpolatePosition(c, h, easedProgress) ==
    IF c.useSphericalInterpolation
    THEN The({[heap |-> h1,
               position |->
                  Scale(slerp(h1[c.startPosition], h1[c.endPosition], easedProgress),
                        The({RAdd(startDist, RMul(RSub(endDist, startDist), easedProgress))
                             : startDist \in {Length(h1[c.startPosition])},
                               endDist \in {Length(h1[c.endPosition])}}))]
              : h1 \in {NormalizeInPlace(NormalizeInPlace(h, c.startPosition),
                                         c.endPosition)}})
    ELSE [heap |-> h,
          position |-> Lerp(h[c.startPosition], h[c.endPosition], easedProgress)]

\* update(), "Interpolate target if specified": the heap afterwards and the
\* target (none unless both targets are configured).
InterpolateTarget(c, h, easedProgress) ==
    IF c.startTarget = Undefined \/ c.endTarget = Undefined
    THEN [heap |-> h, target |-> <<>>]
    ELSE IF c.useSphericalInterpolation
         THEN The({[heap |-> h1,
                    target |-> <<slerp(h1[c.startTarget], h1[c.endTarget], easedProgress)>>]
                   : h1 \in {NormalizeInPlace(NormalizeInPlace(h, c.startTarget),
                                              c.endTarget)}})
         ELSE [heap |-> h,
               target |-> <<Lerp(h[c.startTarget], h[c.endTarget], easedProgress)>>]

\* A faulty update(): the animator keeps animating past the terminal frame.
ElapseStillAnimating(a, currentTime, finished) == [a EXCEPT !.currentTime = currentTime]

\* update(): the animator once the elapsed time is recorded, no longer
\* animating if the progress has reached 1.
Elapse(a, currentTime, finished) ==
    [a EXCEPT !.currentTime = currentTime, !.isAnimating = ~finished]

\* update() of an animator that is animating, with performance.now() = t on
\* heap h: the animator, the heap and the returned value afterwards.
UpdateRunning(a, h, t) ==
    LET c == a.config
        currentTime == t - a.startTime
        progress == RMin(RDiv(R(currentTime), R(c.duration)), R(1))
        easedProgress == Ease(a.easingFunction, progress)
        finished == RGe(progress, R(1))
    IN  The({The({
            [anim |-> Elapse(a, currentTime, finished),
             heap |-> tg.heap,
             ret |-> IF finished
                     THEN Frame(tg.heap[c.endPosition],
                                IF c.endTarget # Undefined
                                THEN <<tg.heap[c.endTarget]>> ELSE <<>>,
                                TRUE)
                     ELSE Frame(pos.position, tg.target, FALSE)]
            : tg \in {InterpolateTarget(c, pos.heap, easedProgress)}})
            : pos \in {InterpolatePosition(c, h, easedProgress)}})

\* A faulty update(): the isAnimating guard is missing.
UpdateUnguarded(a, h, t) == UpdateRunning(a, h, t)

\* CameraAnimator.update(): null, and nothing touched, unless animating.
AnimatorUpdate(a, h, t) ==
    IF ~a.isAnimating
    THEN [anim |-> a, heap |-> h, ret |-> NullReturn]
    ELSE UpdateRunning(a, h, t)

\* -------------------------------------------------------------- observers
\* obs[i] records what the calls on animator i have shown so far: the clock
\* reading at its latest start() (-1 before the first) and how it last
\* changed phase: "idle" (constructed), "running" (start() was called),
\* "finished" (update() returned the terminal frame), "stopped" (stop());
\* whileRunning tells whether the latest start() found it running.
NeverStarted == -1
NewObs == [startedAt |-> NeverStarted, phase |-> "idle", whileRunning |-> FALSE]
ObsStart(o, t) ==
    [startedAt |-> t, phase |-> "running", whileRunning |-> o.phase = "running"]
ObsUpdate(o, r) == IF r.terminal THEN [o EXCEPT !.phase = "finished"] ELSE o
ObsStop(o) == [o EXCEPT !.phase = "stopped"]

\* --------------------------------------------------------- configurations
\* A CameraAnimationConfig as the caller writes it: the vectors by value
\* (targets as sequences of zero or one vectors), the duration in clock
\* units, the easing kind ("undefined" when omitted) and the spherical flag.
Cfg(sp, ep, st, et, duration, easing, spherical) ==
    [startPosition |-> sp, endPosition |-> ep, startTarget |-> st, endTarget |-> et,
     duration |-> duration, easing |-> easing, useSphericalInterpolation |-> spherical]

\* The configurations the model draws from.  They cover both interpolation
\* modes, every easing kind, present and absent targets, and positive, zero
\* and negative durations.
Configs ==
    << Cfg(IVec(0, 0, 10), IVec(10, 0, 10), <<>>, <<>>, 2, "linear", FALSE),
       Cfg(IVec(0, 0, 10), IVec(10, 0, 10), <<IVec(0, 0, 0)>>, <<IVec(2, 0, 0)>>,
           2, "easein", FALSE),
       Cfg(IVec(0, 0, 10), IVec(10, 0, 10), <<>>, <<IVec(2, 0, 0)>>, 3, "easeout", FALSE),
       Cfg(IVec(0, 0, 10), IVec(10, 0, 10), <<IVec(2, 0, 0)>>, <<>>, 2, "easeinout", FALSE),
       Cfg(IVec(0, 0, 10), IVec(10, 0, 10), <<>>, <<>>, 2, "exponential", FALSE),
       Cfg(IVec(1, 2, 3), IVec(-1, 0, 5), <<>>, <<>>, 1, "undefined", FALSE),
       Cfg(IVec(0, 0, 10), IVec(10, 0, 10), <<>>, <<>>, 0, "linear", FALSE),
       Cfg(IVec(0, 0, 10), IVec(10, 0, 10), <<>>, <<>>, -1, "easeinout", FALSE),
       Cfg(IVec(25, 0, 0), IVec(7, 0, 24), <<IVec(0, 0, 5)>>, <<IVec(0, 0, 2)>>,
           2, "easeinout", TRUE),
       Cfg(IVec(0, 0, 10), IVec(10, 0, 0), <<>>, <<>>, 1, "linear", TRUE),
       Cfg(IVec(0, 0, 10), IVec(0, 0, -10), <<>>, <<>>, 2, "exponential", TRUE),
       Cfg(IVec(0, 0, 10), IVec(0, 0, 5), <<>>, <<>>, 0, "easein", TRUE),
       Cfg(IVec(0, 3, 4), IVec(0, 6, 8), <<>>, <<>>, -2, "easeinout", TRUE) >>

\* The configurations chain segments are drawn from (indices into Configs):
\* a positive and a zero duration.  The chain only looks at whether a
\* segment's update() returns null, so one interpolation mode does.
ChainConfigs == {1, 7}

\* The four heap cells of the i-th animator's vectors.
RefOf(i, field) ==
    4 * (i - 1) + (CASE field = "startPosition" -> 1 [] field = "endPosition" -> 2
                     [] field = "startTarget" -> 3 [] field = "endTarget" -> 4)

\* The heap the caller allocates for the configurations ks[1..]: one vector
\* object per configured endpoint (an absent target leaves its cell zero).
HeapOf(ks) ==
    [r \in 1..(4 * Len(ks)) |->
        LET c == Configs[ks[((r - 1) \div 4) + 1]]
            f == ((r - 1) % 4) + 1
        IN  CASE f = 1 -> c.startPosition
              [] f = 2 -> c.endPosition
              [] f = 3 -> IF c.startTarget = <<>> THEN ZeroVec ELSE c.startTarget[1]
              [] f = 4 -> IF c.endTarget = <<>> THEN ZeroVec ELSE c.endTarget[1]]

\* The config object handed to the i-th animator: references into the heap.
ConfigOf(ks, i) ==
    LET c == Configs[ks[i]]
    IN  [startPosition |-> RefOf(i, "startPosition"),
         endPosition |-> RefOf(i, "endPosition"),
         startTarget |-> IF c.startTarget = <<>> THEN Undefined ELSE RefOf(i, "startTarget"),
         endTarget |-> IF c.endTarget = <<>> THEN Undefined ELSE RefOf(i, "endTarget"),
         duration |-> c.duration, easing |-> c.easing,
         useSphericalInterpolation |-> c.useSphericalInterpolation]

\* call is the call of a function of the math modules being followed: the
\* function, its arguments, and the values returned so far.  NoCall: none.
NoCall == [fn |-> "none", args |-> <<>>, out |-> <<>>]

\* The state after the animators for ks have been constructed at clock t0.
Constructed(ks, t0) ==
    /\ now = t0
    /\ heap = HeapOf(ks)
    /\ supplied = HeapOf(ks)
    /\ animations = [i \in 1..Len(ks) |-> NewAnimator(ConfigOf(ks, i))]
    /\ currentIndex = 0
    /\ op = [name |-> "new", who |-> 0]
    /\ ret = NoReturn
    /\ prog = R(0)
    /\ obs = [i \in 1..Len(ks) |-> NewObs]
    /\ depth = 0
    /\ NoXREngine

\* ------------------------------------------------------------------ clock
\* performance.now() moves on.
Tick ==
    /\ now < MaxTime
    /\ now' = now + 1
    /\ op' = [name |-> "tick", who |-> 0]
    /\ UNCHANGED <<heap, supplied, animations, currentIndex, ret, prog, obs, depth, call,
                   xrEngine, pending, experiences>>

\* ------------------------------------------------- one animator, called directly
Start(i) ==
    /\ animations' = [animations EXCEPT ![i] = AnimatorStart(@, now)]
    /\ obs' = [obs EXCEPT ![i] = ObsStart(@, now)]
    /\ op' = [name |-> "start", who |-> i]
    /\ ret' = NoReturn
    /\ UNCHANGED <<now, heap, supplied, currentIndex, prog, depth, call,
                   xrEngine, pending, experiences>>

Update(i) ==
    \E u \in {AnimatorUpdate(animations[i], heap, now)} :
        /\ animations' = [animations EXCEPT ![i] = u.anim]
        /\ heap' = u.heap
        /\ ret' = u.ret
        /\ obs' = [obs EXCEPT ![i] = ObsUpdate(@, u.ret)]
        /\ op' = [name |-> "update", who |-> i]
        /\ UNCHANGED <<now, supplied, currentIndex, prog, depth, call,
                       xrEngine, pending, experiences>>

Stop(i) ==
    /\ animations' = [animations EXCEPT ![i] = AnimatorStop(@)]
    /\ obs' = [obs EXCEPT ![i] = ObsStop(@)]
    /\ op' = [name |-> "stop", who |-> i]
    /\ ret' = NoReturn
    /\ UNCHANGED <<now, heap, supplied, currentIndex, prog, depth, call,
                   xrEngine, pending, experiences>>

Progress(i) ==
    /\ prog' = AnimatorProgress(animations[i])
    /\ op' = [name |-> "progress", who |-> i]
    /\ ret' = NoReturn
    /\ UNCHANGED <<now, heap, supplied, animations, currentIndex, obs, depth, call,
                   xrEngine, pending, experiences>>

\* One CameraAnimator, configured by any of Configs, constructed at clock 0 or 1.
Init ==
    /\ \E k \in 1..Len(Configs), t0 \in 0..1 : Constructed(<<k>>, t0)
    /\ call = NoCall

Next ==
    \/ Tick
    \/ \E i \in 1..Len(animations) : Start(i)
    \/ \E i \in 1..Len(animations) : Update(i)
    \/ \E i \in 1..Len(animations) : Stop(i)
    \/ \E i \in 1..Len(animations) : Progress(i)

Spec == Init /\ [][Next]_vars

\* --------------------------------------------------- CameraAnimationChain
\* A faulty chain start(): the first animator is started but the cursor
\* stays where it was.
ChainStartWithoutReset ==
    /\ IF Len(animations) > 0
       THEN /\ animations' = [animations EXCEPT ![1] = AnimatorStart(@, now)]
            /\ obs' = [obs EXCEPT ![1] = ObsStart(@, now)]
            /\ UNCHANGED currentIndex
       ELSE UNCHANGED <<currentIndex, animations, obs, xrEngine, pending, experiences>>
    /\ op' = [name |-> "chainStart", who |-> 0]
    /\ ret' = NoReturn
    /\ UNCHANGED <<now, heap, supplied, prog, depth, call, xrEngine, pending, experiences>>

\* CameraAnimationChain.start()
ChainStart ==
    /\ IF Len(animations) > 0
       THEN /\ currentIndex' = 0
            /\ animations' = [animations EXCEPT ![1] = AnimatorStart(@, now)]
            /\ obs' = [obs EXCEPT ![1] = ObsStart(@, now)]
       ELSE UNCHANGED <<currentIndex, animations, obs, xrEngine, pending, experiences>>
    /\ op' = [name |-> "chainStart", who |-> 0]
    /\ ret' = NoReturn
    /\ UNCHANGED <<now, heap, supplied, prog, depth, call, xrEngine, pending, experiences>>

\* A faulty chain update(): at a segment boundary the next animator is
\* started but its first frame is not asked for.
ChainUpdateWithoutFirstFrame(anims, h, idx, t, dt, ob, d) ==
    IF idx >= Len(anims)
    THEN [animations |-> anims, heap |-> h, currentIndex |-> idx, ret |-> NullReturn,
          now |-> t, obs |-> ob, depth |-> d]
    ELSE The({
         IF u.ret.kind = "null" /\ idx < Len(anims) - 1
         THEN [animations |-> [anims EXCEPT ![idx + 1] = u.anim,
                                            ![idx + 2] = AnimatorStart(@, t)],
               heap |-> u.heap, currentIndex |-> idx + 1, ret |-> NullReturn, now |-> t,
               obs |-> [ob EXCEPT ![idx + 2] = ObsStart(@, t)], depth |-> d]
         ELSE [animations |-> [anims EXCEPT ![idx + 1] = u.anim], heap |-> u.heap,
               currentIndex |-> idx, ret |-> u.ret, now |-> t,
               obs |-> [ob EXCEPT ![idx + 1] = ObsUpdate(@, u.ret)], depth |-> d]
         : u \in {AnimatorUpdate(anims[idx + 1], h, t)}})

\* A faulty chain update(): at a segment boundary the cursor moves on but the
\* next animator is not started.
ChainUpdateWithoutStartingNext(anims, h, idx, t, dt, ob, d) ==
    IF idx >= Len(anims)
    THEN [animations |-> anims, heap |-> h, currentIndex |-> idx, ret |-> NullReturn,
          now |-> t, obs |-> ob, depth |-> d]
    ELSE The({
         IF u.ret.kind = "null" /\ idx < Len(anims) - 1
         THEN [animations |-> [anims EXCEPT ![idx + 1] = u.anim], heap |-> u.heap,
               currentIndex |-> idx + 1, ret |-> NullReturn, now |-> t,
               obs |-> ob, depth |-> d + 1]
         ELSE [animations |-> [anims EXCEPT ![idx + 1] = u.anim], heap |-> u.heap,
               currentIndex |-> idx, ret |-> u.ret, now |-> t,
               obs |-> [ob EXCEPT ![idx + 1] = ObsUpdate(@, u.ret)], depth |-> d]
         : u \in {AnimatorUpdate(anims[idx + 1], h, t)}})

\* A faulty chain update(): the cursor moves on whenever the current animator
\* gives null, past the last animator too.
ChainUpdatePastEnd(anims, h, idx, t, dt, ob, d) ==
    IF idx >= Len(anims)
    THEN [animations |-> anims, heap |-> h, currentIndex |-> idx, ret |-> NullReturn,
          now |-> t, obs |-> ob, depth |-> d]
    ELSE The({
         IF u.ret.kind = "null"
         THEN [animations |-> [j \in 1..Len(anims) |->
                                  IF j = idx + 1 THEN u.anim
                                  ELSE IF j = idx + 2 THEN AnimatorStart(anims[j], t)
                                  ELSE anims[j]],
               heap |-> u.heap, currentIndex |-> idx + 1, ret |-> NullReturn, now |-> t,
               obs |-> [j \in 1..Len(ob) |->
                           IF j = idx + 2 THEN ObsStart(ob[j], t) ELSE ob[j]],
               depth |-> d]
         ELSE [animations |-> [anims EXCEPT ![idx + 1] = u.anim], heap |-> u.heap,
               currentIndex |-> idx, ret |-> u.ret, now |-> t,
               obs |-> [ob EXCEPT ![idx + 1] = ObsUpdate(@, u.ret)], depth |-> d]
         : u \in {AnimatorUpdate(anims[idx + 1], h, t)}})

\* CameraAnimationChain.update() entered with the cursor at idx (0-based, as
\* in the code) and performance.now() = t.  When the current animator gives
\* null and is not the last, the cursor moves on, the next animator is
\* started at t and update() calls itself; the clock may have moved by dt
\* before that call reads it.  d counts the nested calls and ob carries the
\* observers along.
RECURSIVE ChainUpdateFrom(_, _, _, _, _, _, _)
ChainUpdateFrom(anims, h, idx, t, dt, ob, d) ==
    IF idx >= Len(anims)
    THEN [animations |-> anims, heap |-> h, currentIndex |-> idx, ret |-> NullReturn,
          now |-> t, obs |-> ob, depth |-> d]
    ELSE The({
         IF u.ret.kind = "null" /\ idx < Len(anims) - 1
         THEN The({ChainUpdateFrom(anims1, u.heap, idx + 1, t + dt, 0, ob1, d + 1)
                   : anims1 \in {[anims EXCEPT ![idx + 1] = u.anim,
                                               ![idx + 2] = AnimatorStart(@, t)]},
                     ob1 \in {[ob EXCEPT ![idx + 1] = ObsUpdate(@, u.ret),
                                         ![idx + 2] = ObsStart(@, t)]}})
         ELSE [animations |-> [anims EXCEPT ![idx + 1] = u.anim], heap |-> u.heap,
               currentIndex |-> idx, ret |-> u.ret, now |-> t,
               obs |-> [ob EXCEPT ![idx + 1] = ObsUpdate(@, u.ret)], depth |-> d]
         : u \in {AnimatorUpdate(anims[idx + 1], h, t)}})

ChainUpdate(dt) ==
    /\ now + dt <= MaxTime
    /\ \E r \in {ChainUpdateFrom(animations, heap, currentIndex, now, dt, obs, 0)} :
        /\ animations' = r.animations
        /\ heap' = r.heap
        /\ currentIndex' = r.currentIndex
        /\ ret' = r.ret
        /\ now' = r.now
        /\ obs' = r.obs
        /\ depth' = r.depth
        /\ op' = [name |-> "chainUpdate", who |-> 0]
        /\ UNCHANGED <<supplied, prog, call, xrEngine, pending, experiences>>

\* The chain's active accessor.
ChainActive ==
    currentIndex < Len(animations) /\ animations[currentIndex + 1].isAnimating

\* A chain of 0..MaxChain animators, used through the chain only.
InitChain ==
    /\ \E n \in 0..MaxChain : \E ks \in [1..n -> ChainConfigs] : Constructed(ks, 0)
    /\ call = NoCall

NextChain ==
    \/ Tick
    \/ ChainStart
    \/ \E dt \in 0..1 : ChainUpdate(dt)

SpecChain == InitChain /\ [][NextChain]_vars

\* ------------------------------------------------ the chain in a render loop
\* A chain whose segments all have positive durations, driven the way a
\* render loop drives it: every frame reads the clock, which has moved on by
\* adv since the frame before, and calls chain.update(); chain.start() comes
\* at any time.  The model's clock ends at MaxFairTime, so chain.start() is
\* taken only while the clock has room for a whole run.
MaxFairTime == 8
FairConfigs == {1, 6}

\* Clock units within which a run of the chain is over, whatever the frames'
\* timing: each segment its duration, and one frame to notice its end.
RECURSIVE RunLength(_, _)
RunLength(anims, n) ==
    IF n = 0 THEN 0 ELSE anims[n].config.duration + 1 + RunLength(anims, n - 1)

InitChainLive ==
    /\ \E n \in 1..MaxChain : \E ks \in [1..n -> FairConfigs] : Constructed(ks, 0)
    /\ call = NoCall

ChainStartInTime ==
    /\ now + RunLength(animations, Len(animations)) <= MaxFairTime
    /\ ChainStart

\* One frame of the render loop: the clock is read adv later than in the
\* frame before, and chain.update() is called.
ChainFrame(adv, dt) ==
    /\ now + adv + dt <= MaxFairTime
    /\ \E r \in {ChainUpdateFrom(animations, heap, currentIndex, now + adv, dt, obs, 0)} :
        /\ animations' = r.animations
        /\ heap' = r.heap
        /\ currentIndex' = r.currentIndex
        /\ ret' = r.ret
        /\ now' = r.now
        /\ obs' = r.obs
        /\ depth' = r.depth
        /\ op' = [name |-> "chainUpdate", who |-> 0]
        /\ UNCHANGED <<supplied, prog, call, xrEngine, pending, experiences>>

NextChainLive ==
    \/ ChainStartInTime
    \/ \E adv \in 0..1, dt \in 0..1 : ChainFrame(adv, dt)

\* The render loop keeps running and the clock keeps advancing: frames that
\* find the clock moved on are taken as long as the clock has room.
SpecChainLive ==
    /\ InitChainLive
    /\ [][NextChainLive]_vars
    /\ WF_vars(\E dt \in 0..1 : ChainFrame(1, dt))

\* ------------------------------------------------------------- WWTCompat
\* The number of explicit mantissa bits of an element of a Float32Array.
MantissaBits == 23

RECURSIVE Pow2(_)
Pow2(k) == IF k = 0 THEN 1 ELSE 2 * Pow2(k - 1)

\* The binary exponent e of n/d > 0: 2^e <= n/d < 2^(e+1).
FloatExponent(n, d) ==
    CHOOSE e \in -6..7 :
        IF e >= 0 THEN Pow2(e) * d <= n /\ n < Pow2(e + 1) * d
        ELSE d <= n * Pow2(-e) /\ n * Pow2(-e - 1) < d

\* num/den rounded to the nearest integer, ties to the even one.
RoundHalfEven(num, den) ==
    The({IF 2 * r < den THEN q
         ELSE IF 2 * r > den THEN q + 1
         ELSE IF q % 2 = 0 THEN q ELSE q + 1
         : q \in {num \div den}, r \in {num % den}})

\* The value a number has once stored in a Float32Array (Math.fround), for
\* magnitudes from 2^-6 up to 2^8: the nearest number with a 24-bit
\* significand.
Fround(a) ==
    IF ~Finite(a) \/ a.n = 0 THEN a
    ELSE The({Rat((IF a.n < 0 THEN -1 ELSE 1) * RoundHalfEven(Abs(a.n) * Pow2(k), a.d),
                  Pow2(k))
              : k \in {MantissaBits - FloatExponent(Abs(a.n), a.d)}})

\* The fields of WWTMatrix3d, in the order of the interface.
LegacyFields ==
    <<"_m11", "_m12", "_m13", "_m14", "_m21", "_m22", "_m23", "_m24",
      "_m31", "_m32", "_m33", "_m34", "_offsetX", "_offsetY", "_offsetZ", "_m44">>

\* Matrix.FromValues(v[1], ..., v[16]): the values become m[0..15] of the
\* matrix, whose storage is a Float32Array.
FromValues(v) == [i \in 0..15 |-> Fround(v[i + 1])]

\* wwtMatrixToBabylon(wwtMat): the sixteen legacy fields in the order the
\* code passes them to Matrix.FromValues.
wwtMatrixToBabylon(wwtMat) ==
    FromValues(<<wwtMat["_m11"], wwtMat["_m21"], wwtMat["_m31"], wwtMat["_offsetX"],
                 wwtMat["_m12"], wwtMat["_m22"], wwtMat["_m32"], wwtMat["_offsetY"],
                 wwtMat["_m13"], wwtMat["_m23"], wwtMat["_m33"], wwtMat["_offsetZ"],
                 wwtMat["_m14"], wwtMat["_m24"], wwtMat["_m34"], wwtMat["_m44"]>>)

babylonMatrixToWWT(m) ==
    [_m11 |-> m[0], _m12 |-> m[4], _m13 |-> m[8], _m14 |-> m[12],
     _m21 |-> m[1], _m22 |-> m[5], _m23 |-> m[9], _m24 |-> m[13],
     _m31 |-> m[2], _m32 |-> m[6], _m33 |-> m[10], _m34 |-> m[14],
     _offsetX |-> m[3],
     _offsetY |-> m[7],
     _offsetZ |-> m[11],
     _m44 |-> m[15]]

\* A faulty wwtToBabylon: y and z change places.
wwtToBabylonSwapped(wwtVec) == Vec(wwtVec.x, wwtVec.z, wwtVec.y)

\* new Vector3(wwtVec.x, wwtVec.y, wwtVec.z): a Vector3 holds its
\* components as numbers, unrounded.
wwtToBabylon(wwtVec) == Vec(wwtVec.x, wwtVec.y, wwtVec.z)

babylonToWWT(babylonVec) ==
    [x |-> babylonVec.x, y |-> babylonVec.y, z |-> babylonVec.z]

\* ------------------------------------------------------ geoTo3D, raDecTo3D
\* Math.cos and Math.sin of deg * DEG_TO_RAD at the multiples of 90 degrees,
\* where both are rational.
CosDeg(deg) ==
    CASE deg % 360 = 0 -> R(1)
      [] deg % 360 = 90 -> R(0)
      [] deg % 360 = 180 -> R(-1)
      [] deg % 360 = 270 -> R(0)

SinDeg(deg) ==
    CASE deg % 360 = 0 -> R(0)
      [] deg % 360 = 90 -> R(1)
      [] deg % 360 = 180 -> R(0)
      [] deg % 360 = 270 -> R(-1)

geoTo3D(lat, lng, radius) ==
    Vec(RMul(RMul(CosDeg(lng), CosDeg(lat)), R(radius)),
        RMul(SinDeg(lat), R(radius)),
        RMul(RMul(SinDeg(lng), CosDeg(lat)), R(radius)))

raDecTo3D(ra, dec, radius) == geoTo3D(dec, ra * 15, radius)

\* ------------------------------------------- the math functions, called
\* Unit vectors: the six axis directions, one tilted from the x axis by
\* acos(7/25), and one within acos(0.9995) of the x axis.
AxisVectors ==
    {IVec(1, 0, 0), IVec(-1, 0, 0), IVec(0, 1, 0), IVec(0, -1, 0),
     IVec(0, 0, 1), IVec(0, 0, -1)}
XAxis == IVec(1, 0, 0)
Tilted == Vec(Rat(7, 25), R(0), Rat(24, 25))
NearX == Vec(Rat(2112, 2113), Rat(65, 2113), R(0))

\* Arguments <<v1, v2, t>> of slerp, at the points where the model knows
\* the cosine and sine exactly.
SlerpInputs ==
    {<<v1, v2, t>> : v1 \in AxisVectors, v2 \in AxisVectors, t \in {R(0), R(1)}}
    \cup {<<v, Scale(v, R(-1)), Rat(1, 2)>> : v \in AxisVectors}
    \cup {<<v, v, Rat(1, 2)>> : v \in AxisVectors}
    \cup {<<XAxis, Tilted, t>> : t \in {R(0), Rat(1, 2), R(1)}}
    \cup {<<Tilted, XAxis, t>> : t \in {R(0), Rat(1, 2), R(1)}}
    \cup {<<XAxis, NearX, t>> : t \in {R(0), R(1)}}
    \cup {<<NearX, XAxis, t>> : t \in {R(0), R(1)}}

\* Arguments <<ra, dec, radius>> of raDecTo3D: hours, degrees, radius.
RaDecInputs == {<<ra, dec, radius>> : ra \in {0, 6, 12, 18, 24}, dec \in {-90, 0, 90},
                                      radius \in {1, 2}}

\* Legacy vectors.
VectorInputs ==
    {[x |-> R(1), y |-> R(2), z |-> R(3)],
     [x |-> R(0), y |-> R(0), z |-> R(0)],
     [x |-> R(-1), y |-> R(-2), z |-> R(-3)],
     [x |-> Rat(9, 2), y |-> Rat(-23, 10), z |-> Rat(39, 5)],
     [x |-> Rat(1, 10), y |-> Rat(1, 3), z |-> Rat(-2, 7)]}

\* Legacy matrices: the fields in LegacyFields order hold (1 + k) * s,
\* (2 + k) * s, ..., and the identity matrix.
FieldIndex(f) == CHOOSE i \in 1..Len(LegacyFields) : LegacyFields[i] = f
MatrixOf(k, s) ==
    [f \in {LegacyFields[i] : i \in 1..Len(LegacyFields)}
        |-> Rat((FieldIndex(f) + k) * s.n, s.d)]
IdentityMatrix ==
    [f \in {LegacyFields[i] : i \in 1..Len(LegacyFields)}
        |-> IF f \in {"_m11", "_m22", "_m33", "_m44"} THEN R(1) ELSE R(0)]
MatrixInputs ==
    {MatrixOf(k, s) : k \in 0..1, s \in {R(1), R(-1), Rat(1, 2), Rat(1, 10)}}
    \cup {IdentityMatrix}

NewCall(fn, args) == [fn |-> fn, args |-> args, out |-> <<>>]

\* slerp on the heap, with v1 and v2 the objects at r1 and r2: the heap
\* afterwards and the reference of the returned vector.  Vector3.Lerp,
\* scale, subtract and add allocate their results; normalize() overwrites
\* the object it is called on.
slerpHeap(h, r1, r2, t) ==
    The({IF ~IsNaN(dot) /\ RLess(Rat(ParallelNum, ParallelDen), dot)
         THEN [heap |-> NormalizeInPlace(Append(h, Lerp(h[r1], h[r2], t)), Len(h) + 1),
               result |-> Len(h) + 1]
         ELSE The({The({
                  [heap |-> Append(h2, Add(Scale(h2[r1], cs[1]),
                                           Scale(h2[Len(h) + 2], cs[2]))),
                   result |-> Len(h) + 3]
                  : h2 \in {NormalizeInPlace(
                                Append(h1, Subtract(h1[r2], h1[Len(h) + 1])),
                                Len(h) + 2)}})
                  : h1 \in {Append(h, Scale(h[r1], clampedDot))},
                    cs \in {CosSin(clampedDot, t)}})
         : dot \in {Dot(h[r1], h[r2])},
           clampedDot \in {RMax(R(-1), RMin(R(1), Dot(h[r1], h[r2])))}})

\* Math.atan2(y, x) and Math.asin(a), times RAD_TO_DEG, in whole degrees, on
\* the axis directions.
Atan2Deg(y, x) ==
    CASE y.n = 0 /\ x.n >= 0 -> 0
      [] y.n = 0 /\ x.n < 0 -> 180
      [] y.n > 0 /\ x.n = 0 -> 90
      [] y.n < 0 /\ x.n = 0 -> -90

AsinDeg(a) ==
    CASE a = R(0) -> 0
      [] a = R(1) -> 90
      [] a = R(-1) -> -90

\* cartesianToSpherical, "Normalize longitude to [-180, 180]".
foldLongitude(lng) == IF lng > 180 THEN -180 + (180 - lng) ELSE lng

\* cartesianToSpherical(vec): <<latitude, longitude>> in degrees.
\* vec.length() leaves vec alone.
cartesianToSpherical(vec) ==
    The({IF rho = R(0) THEN <<0, 0>>
         ELSE <<AsinDeg(RDiv(vec.y, rho)), foldLongitude(Atan2Deg(vec.z, vec.x))>>
         : rho \in {Length(vec)}})

\* cartesianToAzAlt(vec) with vec the object at ref: the heap afterwards and
\* <<azimuth, altitude>> in degrees.  normalized is vec itself, which
\* vec.normalize() has overwritten.
cartesianToAzAlt(h, ref) ==
    The({[heap |-> h1,
          value |-> <<(Atan2Deg(h1[ref].x, h1[ref].z) + 360) % 360, AsinDeg(h1[ref].y)>>]
         : h1 \in {NormalizeInPlace(h, ref)}})

\* Vectors along the axes, of length 0, 1 and more.
DirectionInputs ==
    {IVec(0, 0, 0), IVec(1, 0, 0), IVec(0, 0, 2), IVec(-3, 0, 0), IVec(0, 5, 0),
     IVec(0, -1, 0), IVec(0, 0, -4), Vec(Rat(1, 2), R(0), R(0))}

\* Longitudes in degrees on both sides of 180.
LongitudeInputs == {-180, -90, 0, 90, 180, 181, 270, 360}

CallSlerp ==
    /\ call.fn = "slerp" /\ call.out = <<>>
    /\ call' = [call EXCEPT !.out = <<slerp(call.args[1], call.args[2], call.args[3])>>]
    /\ heap' = slerpHeap(heap, 1, 2, call.args[3]).heap
    /\ UNCHANGED <<now, supplied, animations, currentIndex, op, ret, prog, obs, depth,
                   xrEngine, pending, experiences>>

CallCartesianToSpherical ==
    /\ call.fn = "cartesianToSpherical" /\ call.out = <<>>
    /\ call' = [call EXCEPT !.out = <<cartesianToSpherical(heap[1])>>]
    /\ UNCHANGED <<now, heap, supplied, animations, currentIndex, op, ret, prog, obs, depth,
                   xrEngine, pending, experiences>>

CallCartesianToAzAlt ==
    /\ call.fn = "cartesianToAzAlt" /\ call.out = <<>>
    /\ \E r \in {cartesianToAzAlt(heap, 1)} :
        /\ call' = [call EXCEPT !.out = <<r.value>>]
        /\ heap' = r.heap
    /\ UNCHANGED <<now, supplied, animations, currentIndex, op, ret, prog, obs, depth,
                   xrEngine, pending, experiences>>

\* The longitude fold of cartesianToSpherical on its own.
CallFoldLongitude ==
    /\ call.fn = "foldLongitude" /\ call.out = <<>>
    /\ call' = [call EXCEPT !.out = <<foldLongitude(call.args[1])>>]
    /\ UNCHANGED <<now, heap, supplied, animations, currentIndex, op, ret, prog, obs, depth,
                   xrEngine, pending, experiences>>

CallRaDecTo3D ==
    /\ call.fn = "raDecTo3D" /\ call.out = <<>>
    /\ call' = [call EXCEPT
                  !.out = <<raDecTo3D(call.args[1], call.args[2], call.args[3])>>]
    /\ UNCHANGED <<now, heap, supplied, animations, currentIndex, op, ret, prog, obs, depth,
                   xrEngine, pending, experiences>>

\* babylonToWWT(wwtToBabylon(v)), one call at a time.
CallWwtToBabylon ==
    /\ call.fn = "vector" /\ call.out = <<>>
    /\ call' = [call EXCEPT !.out = <<wwtToBabylon(call.args[1])>>]
    /\ UNCHANGED <<now, heap, supplied, animations, currentIndex, op, ret, prog, obs, depth,
                   xrEngine, pending, experiences>>

CallBabylonToWWT ==
    /\ call.fn = "vector" /\ Len(call.out) = 1
    /\ call' = [call EXCEPT !.out = Append(@, babylonToWWT(call.out[1]))]
    /\ UNCHANGED <<now, heap, supplied, animations, currentIndex, op, ret, prog, obs, depth,
                   xrEngine, pending, experiences>>

\* babylonMatrixToWWT(wwtMatrixToBabylon(m)), one call at a time.
CallWwtMatrixToBabylon ==
    /\ call.fn = "matrix" /\ call.out = <<>>
    /\ call' = [call EXCEPT !.out = <<wwtMatrixToBabylon(call.args[1])>>]
    /\ UNCHANGED <<now, heap, supplied, animations, currentIndex, op, ret, prog, obs, depth,
                   xrEngine, pending, experiences>>

CallBabylonMatrixToWWT ==
    /\ call.fn = "matrix" /\ Len(call.out) = 1
    /\ call' = [call EXCEPT !.out = Append(@, babylonMatrixToWWT(call.out[1]))]
    /\ UNCHANGED <<now, heap, supplied, animations, currentIndex, op, ret, prog, obs, depth,
                   xrEngine, pending, experiences>>

\* No animator; one call of a math function, its arguments drawn from the
\* sets above.  The heap holds the Vector3 objects passed as arguments.
InitMath ==
    /\ now = 0
    /\ animations = <<>>
    /\ currentIndex = 0
    /\ op = [name |-> "new", who |-> 0]
    /\ ret = NoReturn
    /\ prog = R(0)
    /\ obs = <<>>
    /\ depth = 0
    /\ NoXREngine
    /\ \/ \E a \in SlerpInputs : call = NewCall("slerp", a) /\ heap = <<a[1], a[2]>>
       \/ \E a \in RaDecInputs : call = NewCall("raDecTo3D", a) /\ heap = <<>>
       \/ \E v \in VectorInputs : call = NewCall("vector", <<v>>) /\ heap = <<>>
       \/ \E m \in MatrixInputs : call = NewCall("matrix", <<m>>) /\ heap = <<>>
       \/ \E v \in DirectionInputs :
             call = NewCall("cartesianToSpherical", <<v>>) /\ heap = <<v>>
       \/ \E v \in DirectionInputs :
             call = NewCall("cartesianToAzAlt", <<v>>) /\ heap = <<v>>
       \/ \E v \in LongitudeInputs : call = NewCall("foldLongitude", <<v>>) /\ heap = <<>>
    /\ supplied = heap

NextMath ==
    \/ CallSlerp
    \/ CallCartesianToSpherical
    \/ CallCartesianToAzAlt
    \/ CallFoldLongitude
    \/ CallRaDecTo3D
    \/ CallWwtToBabylon
    \/ CallBabylonToWWT
    \/ CallWwtMatrixToBabylon
    \/ CallBabylonMatrixToWWT

SpecMath == InitMath /\ [][NextMath]_vars

\* ------------------------------------------------- two animators, and each alone
\* Animators 1 and 2 are called in any order.  Animators 3 and 4 are copies
\* of 1 and 2 on vector objects of their own, and each is called exactly when
\* and as its original is: they show what 1 and 2 do when driven alone with
\* the same timestamps.  With share, animator 2 is configured with the very
\* Vector3 that is animator 1's end position as its start position (two
\* consecutive segments of a path).
PairFirst == {10}
PairSecond == {1, 10}

PairHeap(ks, share) ==
    IF share
    THEN [HeapOf(ks) EXCEPT ![RefOf(4, "startPosition")] =
                                HeapOf(ks)[RefOf(1, "endPosition")]]
    ELSE HeapOf(ks)

PairConfig(ks, share, i) ==
    IF share /\ i = 2
    THEN [ConfigOf(ks, 2) EXCEPT !.startPosition = RefOf(1, "endPosition")]
    ELSE ConfigOf(ks, i)

InitPair ==
    \E kA \in PairFirst, kB \in PairSecond, share \in BOOLEAN :
        /\ now = 0
        /\ heap = PairHeap(<<kA, kB, kA, kB>>, share)
        /\ supplied = heap
        /\ animations = [i \in 1..4 |-> NewAnimator(PairConfig(<<kA, kB, kA, kB>>, share, i))]
        /\ currentIndex = 0
        /\ op = [name |-> "new", who |-> 0]
        /\ ret = NoReturn
        /\ prog = R(0)
        /\ obs = [i \in 1..4 |-> NewObs]
        /\ depth = 0
        /\ NoXREngine
        /\ call = NoCall

\* start() on animator i, and on its copy.
PairStart(i) ==
    /\ animations' = [animations EXCEPT ![i] = AnimatorStart(@, now),
                                        ![i + 2] = AnimatorStart(@, now)]
    /\ op' = [name |-> "pairStart", who |-> i]
    /\ ret' = NoReturn
    /\ call' = NoCall
    /\ UNCHANGED <<now, heap, supplied, currentIndex, prog, obs, depth,
                   xrEngine, pending, experiences>>

\* update() on animator i, and on its copy; call.out holds what the copy
\* returned.
PairUpdate(i) ==
    \E u \in {AnimatorUpdate(animations[i], heap, now)} :
      \E w \in {AnimatorUpdate(animations[i + 2], u.heap, now)} :
        /\ animations' = [animations EXCEPT ![i] = u.anim, ![i + 2] = w.anim]
        /\ heap' = w.heap
        /\ ret' = u.ret
        /\ call' = [fn |-> "alone", args |-> <<i>>, out |-> <<w.ret>>]
        /\ op' = [name |-> "pairUpdate", who |-> i]
        /\ UNCHANGED <<now, supplied, currentIndex, prog, obs, depth,
                       xrEngine, pending, experiences>>

\* stop() on animator i, and on its copy.
PairStop(i) ==
    /\ animations' = [animations EXCEPT ![i] = AnimatorStop(@),
                                        ![i + 2] = AnimatorStop(@)]
    /\ op' = [name |-> "pairStop", who |-> i]
    /\ ret' = NoReturn
    /\ call' = NoCall
    /\ UNCHANGED <<now, heap, supplied, currentIndex, prog, obs, depth,
                   xrEngine, pending, experiences>>

NextPair ==
    \/ Tick
    \/ \E i \in 1..2 : PairStart(i)
    \/ \E i \in 1..2 : PairUpdate(i)
    \/ \E i \in 1..2 : PairStop(i)

SpecPair == InitPair /\ [][NextPair]_vars

\* ---------------------------------------------------------------- XREngine
\* The XREngine object is xrEngine: its flags, its scene ("none" for null,
\* "live", or "disposed": dispose() leaves the field set) and its options.
\* An async method runs to its first await when it is called and goes on, one
\* await at a time, when the awaited promise settles; the calls suspended at
\* an await are in pending, each with the await it is at (pc).  What the
\* browser and Babylon.js answer (WebXR present, experience created, session
\* entered or refused) is chosen freely.  experiences counts the XR
\* experiences created.
\* Calls that can be suspended at an await at the same time.
MaxPending == 2
\* XR experiences the model lets the engine create.
MaxExperiences == 3

Free == [fn |-> "none", pc |-> "none"]

\* new XREngine(options)
NewXREngine(options) ==
    [isInitialized |-> FALSE, isXRActive |-> FALSE, scene |-> "none", options |-> options]

Resolved == [kind |-> "resolved", message |-> ""]
Warned(message) == [kind |-> "resolved", message |-> message]
Rejected(message) == [kind |-> "rejected", message |-> message]
Suspended == [kind |-> "pending", message |-> ""]

\* The first free slot for a suspended call (0 when all are taken).
FreeSlot ==
    IF \E k \in 1..MaxPending : pending[k] = Free
    THEN CHOOSE k \in 1..MaxPending :
            pending[k] = Free /\ \A j \in 1..(k - 1) : pending[j] # Free
    ELSE 0

\* The enterXR() calls that have passed the guards and not yet settled.
EnteringCalls == {k \in 1..MaxPending : pending[k].fn = "enterXR"}

\* The enterXR() calls that hold an XR experience they have created.
HoldingExperience == {k \in EnteringCalls : pending[k].pc \in {"handTracking", "enter"}}

InitXR ==
    /\ \E handTracking \in BOOLEAN :
          xrEngine = NewXREngine([enableHandTracking |-> handTracking])
    /\ pending = [k \in 1..MaxPending |-> Free]
    /\ experiences = 0
    /\ now = 0
    /\ heap = <<>>
    /\ supplied = <<>>
    /\ animations = <<>>
    /\ currentIndex = 0
    /\ op = [name |-> "new", who |-> 0]
    /\ ret = Resolved
    /\ prog = R(0)
    /\ obs = <<>>
    /\ depth = 0
    /\ call = NoCall

\* initialize(): no await in it, so it runs in one piece.
Initialize ==
    /\ IF xrEngine.isInitialized
       THEN /\ ret' = Warned("XREngine already initialized")
            /\ UNCHANGED xrEngine
       ELSE /\ xrEngine' = [xrEngine EXCEPT !.scene = "live", !.isInitialized = TRUE]
            /\ ret' = Resolved
    /\ op' = [name |-> "initialize", who |-> 0]
    /\ UNCHANGED <<now, heap, supplied, animations, currentIndex, prog, obs, depth, call,
                   pending, experiences>>

\* enterXR() up to its first await: the guards, then the request for the
\* default XR experience.
EnterXR ==
    /\ op' = [name |-> "enterXR", who |-> 0]
    /\ \/ /\ ~xrEngine.isInitialized
          /\ ret' = Rejected("XREngine not initialized. Call initialize() first.")
          /\ UNCHANGED pending
       \/ /\ xrEngine.isInitialized /\ xrEngine.isXRActive
          /\ ret' = Warned("Already in XR mode")
          /\ UNCHANGED pending
       \/ /\ xrEngine.isInitialized /\ ~xrEngine.isXRActive /\ xrEngine.scene = "none"
          /\ ret' = Rejected("Scene not available")
          /\ UNCHANGED pending
       \/ /\ xrEngine.isInitialized /\ ~xrEngine.isXRActive /\ xrEngine.scene # "none"
          /\ \/ /\ ret' = Rejected("WebXR not supported in this browser")
                /\ UNCHANGED pending
             \/ /\ FreeSlot # 0
                /\ experiences + Cardinality({k \in EnteringCalls : pending[k].pc = "create"})
                      < MaxExperiences
                /\ pending' = [pending EXCEPT ![FreeSlot] = [fn |-> "enterXR", pc |-> "create"]]
                /\ ret' = Suspended
    /\ UNCHANGED <<now, heap, supplied, animations, currentIndex, prog, obs, depth, call,
                   xrEngine, experiences>>

\* createDefaultXRExperienceAsync() has settled for suspended call k: without
\* a base experience the call throws; with one it goes on to the await of
\* enableFeature() when hand tracking is enabled and enableFeature() did not
\* throw, and to the await of enterXRAsync() otherwise.
EnterXRCreated(k) ==
    /\ pending[k] = [fn |-> "enterXR", pc |-> "create"]
    /\ op' = [name |-> "enterXR", who |-> k]
    /\ \/ /\ pending' = [pending EXCEPT ![k] = Free]
          /\ ret' = Rejected("Failed to create XR experience")
          /\ UNCHANGED experiences
       \/ /\ experiences' = experiences + 1
          /\ \E pc \in IF xrEngine.options.enableHandTracking
                       THEN {"handTracking", "enter"} ELSE {"enter"} :
                pending' = [pending EXCEPT ![k].pc = pc]
          /\ ret' = Suspended
    /\ UNCHANGED <<now, heap, supplied, animations, currentIndex, prog, obs, depth, call,
                   xrEngine>>

\* The await of enableFeature() is over for suspended call k.
EnterXRHandTracking(k) ==
    /\ pending[k] = [fn |-> "enterXR", pc |-> "handTracking"]
    /\ pending' = [pending EXCEPT ![k].pc = "enter"]
    /\ op' = [name |-> "enterXR", who |-> k]
    /\ ret' = Suspended
    /\ UNCHANGED <<now, heap, supplied, animations, currentIndex, prog, obs, depth, call,
                   xrEngine, experiences>>

\* enterXRAsync() has settled for suspended call k: refused, the call throws;
\* entered, the call sets isXRActive and returns.
EnterXREntered(k) ==
    /\ pending[k] = [fn |-> "enterXR", pc |-> "enter"]
    /\ pending' = [pending EXCEPT ![k] = Free]
    /\ op' = [name |-> "enterXR", who |-> k]
    /\ \/ /\ ret' = Rejected("enterXRAsync")
          /\ UNCHANGED xrEngine
       \/ /\ xrEngine' = [xrEngine EXCEPT !.isXRActive = TRUE]
          /\ ret' = Resolved
    /\ UNCHANGED <<now, heap, supplied, animations, currentIndex, prog, obs, depth, call,
                   experiences>>

\* exitXR() up to its first await.  With an active camera on the scene and an
\* xr helper on the engine it awaits exitXRAsync(); without, it clears the
\* flag at once.
ExitXR ==
    /\ op' = [name |-> "exitXR", who |-> 0]
    /\ \/ /\ ~xrEngine.isXRActive
          /\ ret' = Warned("Not in XR mode")
          /\ UNCHANGED <<xrEngine, pending>>
       \/ /\ xrEngine.isXRActive
          /\ xrEngine.scene # "none"
          /\ FreeSlot # 0
          /\ pending' = [pending EXCEPT ![FreeSlot] = [fn |-> "exitXR", pc |-> "exit"]]
          /\ ret' = Suspended
          /\ UNCHANGED xrEngine
       \/ /\ xrEngine.isXRActive
          /\ xrEngine' = [xrEngine EXCEPT !.isXRActive = FALSE]
          /\ ret' = Resolved
          /\ UNCHANGED pending
    /\ UNCHANGED <<now, heap, supplied, animations, currentIndex, prog, obs, depth, call,
                   experiences>>

\* exitXRAsync() has settled for suspended call k.
ExitXRExited(k) ==
    /\ pending[k] = [fn |-> "exitXR", pc |-> "exit"]
    /\ pending' = [pending EXCEPT ![k] = Free]
    /\ op' = [name |-> "exitXR", who |-> k]
    /\ \/ /\ ret' = Rejected("exitXRAsync")
          /\ UNCHANGED xrEngine
       \/ /\ xrEngine' = [xrEngine EXCEPT !.isXRActive = FALSE]
          /\ ret' = Resolved
    /\ UNCHANGED <<now, heap, supplied, animations, currentIndex, prog, obs, depth, call,
                   experiences>>

\* dispose(): synchronous; the scene and engine fields stay set.
Dispose ==
    /\ xrEngine' = [xrEngine EXCEPT
                       !.scene = IF @ = "none" THEN "none" ELSE "disposed",
                       !.isInitialized = FALSE,
                       !.isXRActive = FALSE]
    /\ op' = [name |-> "dispose", who |-> 0]
    /\ ret' = Resolved
    /\ UNCHANGED <<now, heap, supplied, animations, currentIndex, prog, obs, depth, call,
                   pending, experiences>>

NextXR ==
    \/ Initialize
    \/ EnterXR
    \/ \E k \in 1..MaxPending : EnterXRCreated(k)
    \/ \E k \in 1..MaxPending : EnterXRHandTracking(k)
    \/ \E k \in 1..MaxPending : EnterXREntered(k)
    \/ ExitXR
    \/ \E k \in 1..MaxPending : ExitXRExited(k)
    \/ Dispose

SpecXR == InitXR /\ [][NextXR]_vars

\* ================================================================ claims
\* The chain has been started, and the last animator's terminal frame has
\* not been returned since.
ChainStarted == Len(animations) > 0 /\ obs[1].startedAt # NeverStarted
LastIndex == Len(animations) - 1
ChainInRun ==
    /\ ChainStarted
    /\ ~(currentIndex = LastIndex /\ obs[LastIndex + 1].phase = "finished")

\* C1: in a chain of two or more animators, after every chain.update() that
\* returned a frame other than the last animator's terminal frame, the chain
\* is still active.
C1_ActiveAcrossBoundary ==
    (/\ Len(animations) >= 2
     /\ op.name = "chainUpdate"
     /\ ret.kind = "frame"
     /\ ~(ret.terminal /\ currentIndex = LastIndex))
    => ChainActive

\* C2: while a run of a non-empty chain is not over, every chain.update()
\* returns a frame; the update that follows a non-last segment's terminal
\* frame moves the cursor on by one, starts the next animator (at the clock
\* reading of that call) and returns that animator's frame, measured from
\* that start.
C2_NoFrameLost ==
    [][(ChainInRun /\ op'.name = "chainUpdate")
       => /\ ret'.kind = "frame"
          /\ (~ChainActive /\ currentIndex < LastIndex)
             => /\ currentIndex' = currentIndex + 1
                /\ depth' = 1
                /\ obs'[currentIndex' + 1].startedAt = now
                /\ animations'[currentIndex' + 1].startTime = now
                /\ animations'[currentIndex' + 1].currentTime = now' - now
                /\ obs[currentIndex + 1].phase = "finished"]_vars

\* C2 witness: an update at a segment boundary returned the second
\* animator's first frame.
C2_Witness ==
    /\ op.name = "chainUpdate"
    /\ depth = 1
    /\ currentIndex = 1
    /\ ret.kind = "frame"
    /\ obs[1].phase = "finished"

\* The end target as the caller supplied it (none when not configured).
SuppliedEndTarget(c) ==
    IF c.endTarget # Undefined THEN <<supplied[c.endTarget]>> ELSE <<>>

\* C3: an update() that observed an elapsed time of at least the (positive)
\* duration returned the end position and the end target exactly as they were
\* supplied, in either interpolation mode and with any easing.
C3_TerminalFrameIsSuppliedEnd ==
    \A i \in 1..Len(animations) :
        (/\ op = [name |-> "update", who |-> i]
         /\ ret.kind = "frame"
         /\ animations[i].config.duration > 0
         /\ animations[i].currentTime >= animations[i].config.duration)
        => /\ ret.position = supplied[animations[i].config.endPosition]
           /\ ret.target = SuppliedEndTarget(animations[i].config)

\* C4: once update() has returned the terminal frame the animator is not
\* running and every later update() returns nothing, until start() is called;
\* start() then sets it running again from elapsed zero.
C4_FinishedStaysFinished ==
    /\ [](\A i \in 1..Len(animations) :
            obs[i].phase = "finished" => ~animations[i].isAnimating)
    /\ [][\A i \in 1..Len(animations) :
            obs[i].phase = "finished"
            => /\ op' = [name |-> "update", who |-> i]
                  => ret'.kind = "null" /\ obs'[i].phase = "finished"
               /\ op' = [name |-> "start", who |-> i]
                  => /\ animations'[i].isAnimating
                     /\ animations'[i].currentTime = 0
                     /\ animations'[i].startTime = now]_vars

\* C4 witness: an update() after the terminal frame returned nothing.
C4_Witness ==
    /\ op = [name |-> "update", who |-> 1]
    /\ obs[1].phase = "finished"
    /\ ret.kind = "null"
    /\ animations[1].currentTime >= animations[1].config.duration

\* C5: the vectors of the configuration keep the component values they were
\* constructed with, whatever calls are made.
C5_ConfigNeverMutated == heap = supplied

\* C6: with a duration of zero or less, every update() that returns a frame
\* returns the end position and leaves the animator not running, whatever
\* the elapsed time (zero included).
C6_NonPositiveDurationEndsAtOnce ==
    \A i \in 1..Len(animations) :
        (/\ op = [name |-> "update", who |-> i]
         /\ ret.kind = "frame"
         /\ animations[i].config.duration <= 0)
        => /\ ret.terminal
           /\ ret.position = heap[animations[i].config.endPosition]
           /\ ~animations[i].isAnimating

\* C7: update() on an animator that is not running (never started, finished
\* or stopped) returns nothing and changes nothing.
C7_IdleUpdateIsNoOp ==
    [][\A i \in 1..Len(animations) :
        (~animations[i].isAnimating /\ op' = [name |-> "update", who |-> i])
        => /\ ret'.kind = "null"
           /\ animations' = animations
           /\ heap' = heap
           /\ now' = now
           /\ currentIndex' = currentIndex]_vars

\* C7 witness: update() on a never-started animator returned nothing.
C7_Witness ==
    /\ op = [name |-> "update", who |-> 1]
    /\ obs[1].phase = "idle"
    /\ ret.kind = "null"
    /\ animations[1] = NewAnimator(animations[1].config)

\* C8: stop() leaves the animator not running whatever state it was in, and
\* after stop() every update() returns nothing until start() is called.
C8_StopHalts ==
    /\ [](\A i \in 1..Len(animations) :
            obs[i].phase = "stopped" => ~animations[i].isAnimating)
    /\ [][\A i \in 1..Len(animations) :
            /\ op' = [name |-> "stop", who |-> i] => ~animations'[i].isAnimating
            /\ (obs[i].phase = "stopped" /\ op' = [name |-> "update", who |-> i])
               => ret'.kind = "null" /\ obs'[i].phase = "stopped"]_vars

\* C8 witness: an animator stopped part of the way through returned nothing
\* from update().
C8_Witness ==
    /\ op = [name |-> "update", who |-> 1]
    /\ obs[1].phase = "stopped"
    /\ ret.kind = "null"
    /\ animations[1].currentTime > 0
    /\ animations[1].currentTime < animations[1].config.duration

\* C9: start() in any state sets the epoch to the clock reading, the elapsed
\* time to zero and the animator running; an update() of a running animator
\* records the time elapsed since the latest start().
C9_StartIsReentrant ==
    [][\A i \in 1..Len(animations) :
        /\ op' = [name |-> "start", who |-> i]
           => /\ animations'[i].startTime = now
              /\ animations'[i].currentTime = 0
              /\ animations'[i].isAnimating
        /\ (op' = [name |-> "update", who |-> i] /\ animations[i].isAnimating)
           => animations'[i].currentTime = now - obs[i].startedAt]_vars

\* C9 witness: an animator started again while it was running, at a later
\* clock reading, returned a frame measured from the second start().
C9_Witness ==
    /\ op = [name |-> "update", who |-> 1]
    /\ obs[1].whileRunning
    /\ ret.kind = "frame"
    /\ animations[1].startTime >= 2
    /\ animations[1].currentTime = now - animations[1].startTime
    /\ animations[1].currentTime = 1

\* C10: the progress accessor returns 1 when the animator is not running;
\* while it runs with a positive duration it returns the recorded elapsed
\* time over the duration, a value from 0 to 1.
C10_ProgressAccessor ==
    \A i \in 1..Len(animations) :
        op = [name |-> "progress", who |-> i]
        => /\ ~animations[i].isAnimating => prog = R(1)
           /\ (animations[i].isAnimating /\ animations[i].config.duration > 0)
              => /\ prog = RMin(Rat(animations[i].currentTime,
                                    animations[i].config.duration), R(1))
                 /\ prog.d > 0
                 /\ 0 <= prog.n
                 /\ prog.n <= prog.d
                 /\ prog.n * animations[i].config.duration
                       = animations[i].currentTime * prog.d
                 /\ animations[i].currentTime <= now - obs[i].startedAt

\* C10 witness: the accessor returned one half from a running animator.
C10_Witness ==
    /\ op = [name |-> "progress", who |-> 1]
    /\ animations[1].isAnimating
    /\ animations[1].currentTime = 1
    /\ prog = Rat(1, 2)

\* The chain's first animator is as start() leaves it until an update()
\* moves it on: running, at the cursor, measured from its latest start().
FirstSegmentStarted ==
    /\ Len(animations) > 0
    /\ currentIndex = 0
    /\ animations[1].isAnimating
    /\ animations[1].startTime = obs[1].startedAt

\* C11: chain.start() on a non-empty chain, in whatever state the chain is,
\* puts the cursor on the first animator and starts it at the clock reading;
\* the chain.update() that follows returns a frame, which is the one the
\* first animator gives, with the cursor still on the first animator.
C11_ChainStartResets ==
    [][/\ (Len(animations) > 0 /\ op'.name = "chainStart")
          => /\ currentIndex' = 0
             /\ animations'[1].isAnimating
             /\ animations'[1].startTime = now
             /\ animations'[1].currentTime = 0
             /\ FirstSegmentStarted'
       /\ (FirstSegmentStarted /\ op'.name = "chainUpdate")
          => /\ ret'.kind = "frame"
             /\ ret' = AnimatorUpdate(animations[1], heap, now).ret
             /\ currentIndex' = 0
             /\ depth' = 0]_vars

\* C11 witness: a two-animator chain that had run to its end was started
\* again, and update() returned a frame of the first animator.
C11_Witness ==
    /\ Len(animations) = 2
    /\ op.name = "chainUpdate"
    /\ obs[2].phase = "finished"
    /\ obs[1].phase = "running"
    /\ obs[1].startedAt > obs[2].startedAt
    /\ currentIndex = 0
    /\ ret.kind = "frame"

\* start() has never been called on the chain.
ChainNeverStarted == Len(animations) = 0 \/ obs[1].startedAt = NeverStarted

\* C12: update() on a chain that has not been started returns nothing,
\* leaves the cursor on the first element and starts no animator.
C12_UpdateBeforeStartIsNoOp ==
    (ChainNeverStarted /\ op.name = "chainUpdate")
    => /\ ret.kind = "null"
       /\ currentIndex = 0
       /\ \A i \in 1..Len(animations) :
            ~animations[i].isAnimating /\ obs[i].startedAt = NeverStarted

\* C13: a frame returned by update() carries a target exactly when both a
\* start target and an end target are configured; the terminal frame too.
C13_TargetOnlyIfBothConfigured ==
    \A i \in 1..Len(animations) :
        (op = [name |-> "update", who |-> i] /\ ret.kind = "frame")
        => (ret.target # <<>>
            <=> (/\ animations[i].config.startTarget # Undefined
                 /\ animations[i].config.endTarget # Undefined))

\* The eased progress update() computed from the elapsed time it recorded.
EasedProgressOf(a) ==
    Ease(a.easingFunction, RMin(RDiv(R(a.currentTime), R(a.config.duration)), R(1)))

\* C14: in spherical mode with a positive duration, every non-terminal
\* position update() returns has the length that lies easedProgress of the
\* way from the length of the supplied start position to the length of the
\* supplied end position.
C14_SphericalLengthInterpolated ==
    \A i \in 1..Len(animations) :
        (/\ op = [name |-> "update", who |-> i]
         /\ ret.kind = "frame"
         /\ ~ret.terminal
         /\ animations[i].config.useSphericalInterpolation
         /\ animations[i].config.duration > 0)
        => Length(ret.position)
           = RAdd(Length(supplied[animations[i].config.startPosition]),
                  RMul(RSub(Length(supplied[animations[i].config.endPosition]),
                            Length(supplied[animations[i].config.startPosition])),
                       EasedProgressOf(animations[i])))

\* C15: babylonMatrixToWWT(wwtMatrixToBabylon(m)) has in each of the 16
\* legacy fields the value the field has in m.
C15_MatrixRoundTrip ==
    (call.fn = "matrix" /\ Len(call.out) = 2)
    => \A i \in 1..Len(LegacyFields) :
         call.out[2][LegacyFields[i]] = call.args[1][LegacyFields[i]]

\* C16: wwtMatrixToBabylon(m) holds at index 4*row + col the legacy field at
\* (row, col) of the 3x3 block (as stored), the three offsets at indices 3, 7
\* and 11, and _m44 at index 15.
C16_MatrixIndexMap ==
    (call.fn = "matrix" /\ Len(call.out) >= 1)
    => /\ \A row \in 0..2, col \in 0..2 :
            call.out[1][4 * row + col]
            = Fround(call.args[1][LegacyFields[4 * row + col + 1]])
       /\ call.out[1][3] = Fround(call.args[1]["_offsetX"])
       /\ call.out[1][7] = Fround(call.args[1]["_offsetY"])
       /\ call.out[1][11] = Fround(call.args[1]["_offsetZ"])
       /\ call.out[1][15] = Fround(call.args[1]["_m44"])

\* C17: wwtToBabylon and babylonToWWT copy x, y and z field for field, and
\* babylonToWWT(wwtToBabylon(v)) is v.
C17_VectorRoundTrip ==
    call.fn = "vector"
    => /\ Len(call.out) >= 1
          => /\ call.out[1].x = call.args[1].x
             /\ call.out[1].y = call.args[1].y
             /\ call.out[1].z = call.args[1].z
       /\ Len(call.out) = 2
          => /\ call.out[2].x = call.out[1].x
             /\ call.out[2].y = call.out[1].y
             /\ call.out[2].z = call.out[1].z
             /\ call.out[2] = call.args[1]

\* C17 witness: a vector with a negative component that is no binary
\* fraction has gone there and back.
C17_Witness ==
    /\ call.fn = "vector"
    /\ Len(call.out) = 2
    /\ call.args[1].y = Rat(-23, 10)
    /\ call.out[2].y = Rat(-23, 10)

\* C18: raDecTo3D(0, 90) is (0, 0, 1), raDecTo3D(0, -90) is (0, 0, -1) and
\* raDecTo3D(0, 0) is (1, 0, 0).
C18_PolesOnZAxis ==
    (call.fn = "raDecTo3D" /\ call.out # <<>>)
    => /\ call.args = <<0, 90, 1>> => call.out[1] = IVec(0, 0, 1)
       /\ call.args = <<0, -90, 1>> => call.out[1] = IVec(0, 0, -1)
       /\ call.args = <<0, 0, 1>> => call.out[1] = IVec(1, 0, 0)

\* C19: slerp of two unit vectors at any t from 0 to 1 is a unit vector.
C19_SlerpUnitLength ==
    (call.fn = "slerp" /\ call.out # <<>>)
    => Dot(call.out[1], call.out[1]) = R(1)

\* C20: for unit vectors, slerp(v1, v2, 0) is v1 and slerp(v1, v2, 1) is v2,
\* in the near-parallel fallback and in the spherical branch.
C20_SlerpEndpoints ==
    (call.fn = "slerp" /\ call.out # <<>>)
    => /\ call.args[3] = R(0) => call.out[1] = call.args[1]
       /\ call.args[3] = R(1) => call.out[1] = call.args[2]

\* C20 witness: the spherical branch, between two vectors that are neither
\* parallel nor orthogonal, has returned the second vector at t = 1.
C20_Witness ==
    /\ call.fn = "slerp"
    /\ call.args = <<XAxis, Tilted, R(1)>>
    /\ call.out = <<Tilted>>

C22_ArgumentsUntouched ==
    (call.fn \in {"slerp", "cartesianToSpherical", "cartesianToAzAlt"} /\ call.out # <<>>)
    => \A i \in 1..Len(supplied) : heap[i] = supplied[i]

\* C23: of two animators called in any order, each returns from update()
\* what it returns when driven alone with the same timestamps, and is
\* running exactly when it then is; also when the second was configured
\* with the first's end position vector as its start position.
C23_AnimatorsIndependent ==
    /\ \A i \in 1..2 : animations[i].isAnimating = animations[i + 2].isAnimating
    /\ \A i \in 1..2 :
         op = [name |-> "pairUpdate", who |-> i] => ret = call.out[1]

\* C25: with EasingType.Linear, a non-spherical animator of positive
\* duration returns from every non-terminal update() the position that lies
\* elapsed/duration of the way from the start to the end position: the start
\* position at elapsed 0, the midpoint at half the duration.
C25_LinearIsUneased ==
    \A i \in 1..Len(animations) :
        (/\ op = [name |-> "update", who |-> i]
         /\ ret.kind = "frame"
         /\ ~ret.terminal
         /\ animations[i].config.easing = "linear"
         /\ ~animations[i].config.useSphericalInterpolation
         /\ animations[i].config.duration > 0)
        => ret.position
           = Lerp(supplied[animations[i].config.startPosition],
                  supplied[animations[i].config.endPosition],
                  RDiv(R(animations[i].currentTime), R(animations[i].config.duration)))

\* C26: the cursor of a non-empty chain is always one of 0..length-1; a
\* chain.update() leaves it where it is or moves it on by one, calling itself
\* at most once; nothing but chain.start() moves it back.
C26_CursorInvariant ==
    /\ [](Len(animations) > 0 => currentIndex \in 0..LastIndex)
    /\ [][/\ op'.name = "chainUpdate"
             => /\ currentIndex' \in {currentIndex, currentIndex + 1}
                /\ depth' <= 1
          /\ op'.name # "chainStart" => currentIndex' >= currentIndex]_vars

\* C26 witness: in a chain of three whose second and third segments both
\* have zero duration, an update() moved the cursor from the first segment
\* to the second, calling itself once.
C26_Witness ==
    /\ Len(animations) = 3
    /\ animations[2].config.duration = 0
    /\ animations[3].config.duration = 0
    /\ op.name = "chainUpdate"
    /\ depth = 1
    /\ currentIndex = 1
    /\ ret.kind = "frame"
    /\ obs[1].phase = "finished"

\* C27: no animator of the chain other than the one at the cursor is running.
C27_OnlyCursorRuns ==
    \A i \in 1..Len(animations) :
        animations[i].isAnimating => i = currentIndex + 1

\* C24: enterXR() called on an engine that is not initialized throws,
\* creates no XR experience (and requests none), and leaves xrActive false.
C24_EnterXRNeedsInitialize ==
    [][(op'.name = "enterXR" /\ op'.who = 0 /\ ~xrEngine.isInitialized)
       => /\ ret'.kind = "rejected"
          /\ pending' = pending
          /\ experiences' = experiences
          /\ ~xrEngine'.isXRActive]_vars

\* C29: no two XR experiences exist for one activation: of the enterXR()
\* calls under way and the active XR mode, at most one holds an experience.
C29_OneExperiencePerActivation ==
    Cardinality(HoldingExperience) + (IF xrEngine.isXRActive THEN 1 ELSE 0) <= 1

\* C30: xrActive implies initialized in every state; so in particular
\* xrActive is false on a disposed engine once no call is pending.
C30_ActiveImpliesInitialized ==
    xrEngine.isXRActive => xrEngine.isInitialized

\* The update() that has just returned gave the last animator's terminal
\* frame, at its end position.
LastTerminalReturned ==
    /\ op.name = "chainUpdate"
    /\ ret.kind = "frame"
    /\ ret.terminal
    /\ currentIndex = LastIndex
    /\ ret.position = heap[animations[Len(animations)].config.endPosition]

\* Segment i (from 1) has returned its terminal frame in the present run.
FinishedInRun(i) ==
    /\ obs[i].phase = "finished"
    /\ obs[i].startedAt >= obs[1].startedAt

\* The run that the latest chain.start() began is over.
RunOver == ChainStarted /\ ~ChainInRun

\* C28: a chain of positive durations that was started and is updated in
\* every frame while the clock advances comes to return the last animator's
\* terminal frame at its end position; from then until chain.start() every
\* update() returns null and active is false; and an update() of a run that
\* returns a terminal frame returns it for the segment that follows the ones
\* finished in the run, which was not finished in the run before.
C28_ChainTerminates ==
    /\ (ChainStarted /\ op.name = "chainStart") ~> LastTerminalReturned
    /\ [](RunOver => ~ChainActive)
    /\ [][(RunOver /\ op'.name = "chainUpdate")
          => (ret'.kind = "null" /\ ~ChainActive')]_vars
    /\ [][(ChainStarted /\ op'.name = "chainUpdate" /\ ret'.kind = "frame" /\ ret'.terminal)
          => /\ \A i \in 1..Len(animations) :
                  FinishedInRun(i)' <=> i <= currentIndex' + 1
             /\ ~FinishedInRun(currentIndex' + 1)
             /\ \A i \in 1..currentIndex' : FinishedInRun(i)]_vars

\* C28 witness: a run of a chain of three came to its end, with the last
\* animator's terminal frame returned after the other two's.
C28_Witness ==
    /\ Len(animations) = 3
    /\ LastTerminalReturned
    /\ \A i \in 1..3 : FinishedInRun(i)
    /\ obs[1].startedAt < obs[2].startedAt
    /\ obs[2].startedAt < obs[3].startedAt

====
